---- MODULE Spec2Model ----
(***************************************************************************)
(* A model of the Pratt / recursive-descent parser of src/src/parser.rs.   *)
(*                                                                         *)
(* The token source (crate::lexer, a Peekable<Lexer>) is the input: a      *)
(* finite sequence of items, each a token or the lexical-error item "ERR"  *)
(* (Some(Err(_))); past its end the source yields None.  Tokens are        *)
(* strings: identifiers, numbers and strings carry their payload as the    *)
(* string itself, every other token is its source text.                    *)
(*                                                                         *)
(* Every parse routine is an operator from (toks, pos) to a result record; *)
(* pos is the index of the item the next peek() sees.  The statement loop  *)
(* of Parser::parse runs as the actions of the state machine, one loop     *)
(* iteration per step.                                                     *)
(***************************************************************************)
EXTENDS Integers, Sequences, FiniteSets, TLC

\* ------------------------------------------------------------ tokens

\* Words that only the canonical rendering of a tree contains and that the
\* token source reads as identifiers: the display tokens of Grouped, Fn,
\* Index, First, Last, Push and Rest, the `fun` of an anonymous function,
\* the identifier of a let written right against the `nil` of its value, and
\* the text of a string literal, which is rendered without its quotes.
RenderedIdentToks ==
    {"group", "call", "index", "First", "Last", "Push", "Rest", "fun",
     "xnil", "ynil", "s"}

IdentToks == {"a", "b", "c", "f", "x", "y"} \cup RenderedIdentToks
NumberToks == {"1", "2", "3"}
\* Token::String(val): the token is the literal as written, quotes included.
StringToks == {"\"s\""}

\* The val of a string token: the text between the quotes.
StringValue(tok) == CHOOSE val \in {"s"} : tok = "\"" \o val \o "\""

\* Tokens that parse_statement sends to parse_expression_statements.
ExprStartToks ==
    {"(", "[", "!", "-", "true", "false", "len", "first", "last", "rest", "push"}
        \cup NumberToks \cup StringToks \cup IdentToks

\* Option<Result<TokenKind>>: "NONE" past the end, "ERR" for Some(Err(_)).
Peek(toks, pos) == IF pos > Len(toks) THEN "NONE" ELSE toks[pos]

IsToken(toks, pos) == Peek(toks, pos) \notin {"NONE", "ERR"}

\* is_next_token
is_next_token(toks, pos, expected) == Peek(toks, pos) = expected

\* ------------------------------------------------------------ results

\* Result<AST> together with the parser's position afterwards.  abort is
\* "panic" when a panic! unwinds the parse and "diverge" when a loop would
\* repeat an iteration without consuming anything (and so never end).
Ok(ast, pos) == [ok |-> TRUE, ast |-> ast, pos |-> pos]

Err(kind, pos) == [ok |-> FALSE, err |-> kind, pos |-> pos, abort |-> "none"]

Abort(kind, pos) == [ok |-> FALSE, err |-> kind, pos |-> pos, abort |-> kind]

\* panic!(message): the parse unwinds; err keeps the message.
Panic(message, pos) ==
    [ok |-> FALSE, err |-> message, pos |-> pos, abort |-> "panic"]

\* ------------------------------------------------------------ AST

Nil == [k |-> "Type", t |-> "Nil"]

TypeNode(t, v) == [k |-> "Type", t |-> t, v |-> v]

Expr(op, operands) == [k |-> "Expr", op |-> op, xs |-> operands]

LetNode(ident, value) == [k |-> "Let", ident |-> ident, value |-> value]

FnNode(name, params, body) ==
    [k |-> "Fn", name |-> name, params |-> params, body |-> body]

CallNode(calle, args) == [k |-> "Call", calle |-> calle, args |-> args]

ReturnNode(value) == [k |-> "Return", value |-> value]

IfNode(condition, yes, no) ==
    [k |-> "If", condition |-> condition, yes |-> yes, no |-> no]

PrintNode(value) == [k |-> "Print", value |-> value]

\* ------------------------------------------------------------ expect_peek

\* Consumes the next token when it is tok; a lexical error or a different
\* token is left in the stream.
expect_peek(toks, pos, tok) ==
    CASE Peek(toks, pos) = "NONE" -> Err("eof", pos)
      [] Peek(toks, pos) = "ERR" -> Err("lex", pos)
      [] Peek(toks, pos) = tok -> Ok(Nil, pos + 1)
      [] OTHER -> Err("syntax", pos)

\* ------------------------------------------------------------ operator tables

\* LedOp with an arm for `len`, the one operator of postfix_binding_power
\* that the match leaves out.
LedOp_with_len(tok) ==
    CASE tok = "+" -> "Plus"
      [] tok = "=" -> "ReAssign"
      [] tok = "-" -> "Minus"
      [] tok = "*" -> "Star"
      [] tok = "/" -> "Slash"
      [] tok = "(" -> "Fn"
      [] tok = "==" -> "AssignEqual"
      [] tok = "!" -> "Bang"
      [] tok = "!=" -> "BangEqual"
      [] tok = "<" -> "Less"
      [] tok = "<=" -> "LessEqual"
      [] tok = ">" -> "Greater"
      [] tok = ">=" -> "GreaterEqual"
      [] tok = "and" -> "And"
      [] tok = "or" -> "Or"
      [] tok = "[" -> "Index"
      [] tok = "len" -> "Len"
      [] OTHER -> "none"

\* The led loop's token-to-operator match; "none" is the `_ => break` arm.
LedOp(tok) ==
    CASE tok = "+" -> "Plus"
      [] tok = "=" -> "ReAssign"
      [] tok = "-" -> "Minus"
      [] tok = "*" -> "Star"
      [] tok = "/" -> "Slash"
      [] tok = "(" -> "Fn"
      [] tok = "==" -> "AssignEqual"
      [] tok = "!" -> "Bang"
      [] tok = "!=" -> "BangEqual"
      [] tok = "<" -> "Less"
      [] tok = "<=" -> "LessEqual"
      [] tok = ">" -> "Greater"
      [] tok = ">=" -> "GreaterEqual"
      [] tok = "and" -> "And"
      [] tok = "or" -> "Or"
      [] tok = "[" -> "Index"
      [] OTHER -> "none"

\* Option<(u8, ())>: <<>> is None, <<l>> is Some((l, ())).
postfix_binding_power(op) ==
    CASE op \in {"Fn", "Index", "Len"} -> <<13>>
      [] op = "ReAssign" -> <<12>>
      [] OTHER -> <<>>

\* ((), u8); <<>> stands for the panic!("bad operation") arm.
prefix_binding_power(op) ==
    IF op \in {"Plus", "Minus", "Bang"} THEN <<11>> ELSE <<>>

\* infix_binding_power with the powers of + and - the wrong way round.
infix_binding_power_swapped(op) ==
    CASE op \in {"And", "Or"} -> <<3, 4>>
      [] op \in {"BangEqual", "AssignEqual", "Less", "LessEqual",
                 "Greater", "GreaterEqual"} -> <<5, 6>>
      [] op \in {"Plus", "Minus"} -> <<8, 7>>
      [] op \in {"Star", "Slash"} -> <<9, 10>>
      [] OTHER -> <<>>

\* Option<(u8, u8)>: <<>> is None.
infix_binding_power(op) ==
    CASE op \in {"And", "Or"} -> <<3, 4>>
      [] op \in {"BangEqual", "AssignEqual", "Less", "LessEqual",
                 "Greater", "GreaterEqual"} -> <<5, 6>>
      [] op \in {"Plus", "Minus"} -> <<7, 8>>
      [] op \in {"Star", "Slash"} -> <<9, 10>>
      [] OTHER -> <<>>

\* ------------------------------------------------------------ calls and loops

\* Whether an iteration that goes round its loop again has consumed
\* something.  One that has not sees the same token next time and takes the
\* same branch, for ever: the routine ends in Abort("diverge", _).
Advanced(pos, newpos) == newpos > pos

\* The parse routines call each other recursively.  Every such call, and
\* every `continue` of a loop, goes through Run, which runs the body of the
\* routine named: ParseExpression(toks, pos, b) is the call
\* self.parse_expression(b) with the token source at pos, and the operator
\* parse_expression is the body of that method.
RECURSIVE Run(_, _, _, _)

ParseExpression(toks, pos, prev_binding) ==
    Run("parse_expression", toks, pos, prev_binding)

LedLoop(toks, pos, to_return, prev_binding) ==
    Run("led_loop", toks, pos, <<to_return, prev_binding>>)

ParseArgsLoop(toks, pos, params) == Run("parse_args_loop", toks, pos, params)

ParseArrayLoop(toks, pos, vector) == Run("parse_array_loop", toks, pos, vector)

ParseStatementLoop(toks, pos, statements) ==
    Run("parse_statement_loop", toks, pos, statements)

\* One iteration of the statement loop at a token that starts a statement.
ParseStatementStep(toks, pos) == Run("dispatch", toks, pos, <<>>)

ParseFun(toks, pos) == Run("parse_fun", toks, pos, <<>>)

ParseIf(toks, pos) == Run("parse_if", toks, pos, <<>>)

\* ------------------------------------------------------------ expressions

\* The comma loop of parse_args.
parse_args_loop(toks, pos, params) ==
    IF is_next_token(toks, pos, ",")
    THEN LET r == ParseExpression(toks, pos + 1, 0)
         IN  IF ~r.ok THEN r
             ELSE IF ~Advanced(pos, r.pos) THEN Abort("diverge", pos)
             ELSE ParseArgsLoop(toks, r.pos, Append(params, r.ast))
    ELSE Ok(params, pos)

\* parse_args: the first argument unless `)` follows, then one more per comma.
parse_args(toks, pos) ==
    IF ~is_next_token(toks, pos, ")")
    THEN LET r == ParseExpression(toks, pos, 0)
         IN  IF ~r.ok THEN r ELSE ParseArgsLoop(toks, r.pos, <<r.ast>>)
    ELSE ParseArgsLoop(toks, pos, <<>>)

\* The loop of parse_array, entered after `[` has been consumed.
parse_array_loop(toks, pos, vector) ==
    IF is_next_token(toks, pos, "]")
    THEN Ok([k |-> "Type", t |-> "Arr", elems |-> vector], pos + 1)
    ELSE LET r == ParseExpression(toks, pos, 0)
         IN  IF ~r.ok THEN r
             ELSE CASE Peek(toks, r.pos) = "]" ->
                         IF Advanced(pos, r.pos)
                         THEN ParseArrayLoop(toks, r.pos, Append(vector, r.ast))
                         ELSE Abort("diverge", pos)
                    [] Peek(toks, r.pos) = "," ->
                         ParseArrayLoop(toks, r.pos + 1, Append(vector, r.ast))
                    [] OTHER -> Err("syntax", r.pos)

parse_array(toks, pos) == ParseArrayLoop(toks, pos, <<>>)

\* The Len / First / Last / Rest arms: `(` expression `)`.
NudBuiltin(toks, pos, op) ==
    LET lp == expect_peek(toks, pos, "(")
    IN  IF ~lp.ok THEN lp
        ELSE LET right == ParseExpression(toks, lp.pos, 0)
             IN  IF ~right.ok THEN right
                 ELSE LET rp == expect_peek(toks, right.pos, ")")
                      IN  IF ~rp.ok THEN rp
                          ELSE Ok(Expr(op, <<right.ast>>), rp.pos)

\* The Push arm: `(` expression `,` expression `)` `;`, returned at once.
NudPush(toks, pos) ==
    LET lp == expect_peek(toks, pos, "(")
    IN  IF ~lp.ok THEN lp
        ELSE LET left == ParseExpression(toks, lp.pos, 0)
        IN  IF ~left.ok THEN left
        ELSE LET cm == expect_peek(toks, left.pos, ",")
        IN  IF ~cm.ok THEN cm
        ELSE LET right == ParseExpression(toks, cm.pos, 0)
        IN  IF ~right.ok THEN right
        ELSE LET rp == expect_peek(toks, right.pos, ")")
        IN  IF ~rp.ok THEN rp
        ELSE LET sc == expect_peek(toks, rp.pos, ";")
        IN  IF ~sc.ok THEN sc
        ELSE Ok(Expr("Push", <<left.ast, right.ast>>), sc.pos)

\* The Assign | LParen arm.
NudGroupOrAssign(toks, pos, tok) ==
    LET r_side == ParseExpression(toks, pos, 0)
    IN  IF ~r_side.ok THEN r_side
        ELSE IF tok = "("
        THEN LET rp == expect_peek(toks, r_side.pos, ")")
             IN  IF ~rp.ok THEN rp
                 ELSE Ok(Expr("Grouped", <<r_side.ast>>), rp.pos)
        ELSE Ok(Expr("Assing", <<r_side.ast>>), r_side.pos)

\* The Bang | Minus arm.
NudPrefix(toks, pos, tok) ==
    LET op == IF tok = "!" THEN "Bang" ELSE "Minus"
        bp == prefix_binding_power(op)
    IN  IF bp = <<>> THEN Panic("bad operation", pos)
        ELSE LET r_side == ParseExpression(toks, pos, bp[1])
             IN  IF ~r_side.ok THEN r_side
                 ELSE Ok(Expr(op, <<r_side.ast>>), r_side.pos)

\* The left operand ("nud"): tok is the token lexer.next() returned, pos the
\* position after it.
Nud(toks, pos, tok) ==
    CASE tok \in StringToks -> Ok(TypeNode("String", StringValue(tok)), pos)
      [] tok \in NumberToks -> Ok(TypeNode("Number", tok), pos)
      [] tok \in {"true", "false"} -> Ok(TypeNode("Bool", tok), pos)
      [] tok = "fn" -> ParseFun(toks, pos)
      [] tok = "if" -> ParseIf(toks, pos)
      [] tok = "[" -> parse_array(toks, pos)
      [] tok \in IdentToks -> Ok(TypeNode("Ident", tok), pos)
      [] tok \in {"=", "("} -> NudGroupOrAssign(toks, pos, tok)
      [] tok \in {"len", "first", "last", "rest"} ->
           NudBuiltin(toks, pos,
                      CASE tok = "len" -> "Len" [] tok = "first" -> "First"
                        [] tok = "last" -> "Last" [] OTHER -> "Rest")
      [] tok \in {"!", "-"} -> NudPrefix(toks, pos, tok)
      [] OTHER -> Err("syntax", pos)

\* LedCall padding the call's operand list with Nil, as the postfix forms
\* once did.
LedCall_padded(toks, pos, to_return) ==
    LET lp == expect_peek(toks, pos, "(")
    IN  IF ~lp.ok THEN lp
        ELSE LET args == parse_args(toks, lp.pos)
        IN  IF ~args.ok THEN args
        ELSE LET rp == expect_peek(toks, args.pos, ")")
        IN  IF ~rp.ok THEN rp
        ELSE Ok(Expr("Fn", <<CallNode(to_return, args.ast), Nil>>), rp.pos)

\* The Op::Fn arm of the postfix branch.
LedCall(toks, pos, to_return) ==
    LET lp == expect_peek(toks, pos, "(")
    IN  IF ~lp.ok THEN lp
        ELSE LET args == parse_args(toks, lp.pos)
        IN  IF ~args.ok THEN args
        ELSE LET rp == expect_peek(toks, args.pos, ")")
        IN  IF ~rp.ok THEN rp
        ELSE Ok(Expr("Fn", <<CallNode(to_return, args.ast)>>), rp.pos)

\* The Op::ReAssign arm: the `=` is left for the nested parse_expression,
\* whose nud wraps the right side in Assing; the `;` is consumed here.
LedReAssign(toks, pos, to_return) ==
    LET r_side == ParseExpression(toks, pos, 0)
    IN  IF ~r_side.ok THEN r_side
        ELSE LET sc == expect_peek(toks, r_side.pos, ";")
             IN  IF ~sc.ok THEN sc
                 ELSE Ok(Expr("ReAssign", <<to_return, r_side.ast>>), sc.pos)

\* The Op::Index arm.
LedIndex(toks, pos, to_return) ==
    LET lb == expect_peek(toks, pos, "[")
    IN  IF ~lb.ok THEN lb
        ELSE LET r_side == ParseExpression(toks, lb.pos, 0)
        IN  IF ~r_side.ok THEN r_side
        ELSE LET rb == expect_peek(toks, r_side.pos, "]")
        IN  IF ~rb.ok THEN rb
        ELSE Ok(Expr("Index", <<to_return, r_side.ast>>), rb.pos)

\* The postfix branch of the led loop, up to its `continue`.
LedPostfix(toks, pos, to_return, op) ==
    CASE op = "Fn" -> LedCall(toks, pos, to_return)
      [] op = "ReAssign" -> LedReAssign(toks, pos, to_return)
      [] op = "Index" -> LedIndex(toks, pos, to_return)
      [] OTHER -> Panic("should not error from postfix", pos)

\* The infix branch: consume the operator, parse the right operand at the
\* operator's right binding power.
LedInfix(toks, pos, to_return, op, r_binding) ==
    LET r_side == ParseExpression(toks, pos + 1, r_binding)
    IN  IF ~r_side.ok THEN r_side
        ELSE Ok(Expr(op, <<to_return, r_side.ast>>), r_side.pos)

\* One iteration of the led loop: the new to_return when the loop goes on,
\* [brk |-> TRUE] when it breaks.
LedStep(toks, pos, to_return, prev_binding) ==
    IF ~IsToken(toks, pos) THEN [brk |-> TRUE]
    ELSE LET op == LedOp(toks[pos])
             post == postfix_binding_power(op)
             inf == infix_binding_power(op)
         IN  CASE op = "none" -> [brk |-> TRUE]
               [] op # "none" /\ post # <<>> ->
                    IF post[1] < prev_binding THEN [brk |-> TRUE]
                    ELSE [brk |-> FALSE,
                          r |-> LedPostfix(toks, pos, to_return, op)]
               [] op # "none" /\ post = <<>> /\ inf # <<>> ->
                    IF inf[1] < prev_binding THEN [brk |-> TRUE]
                    ELSE [brk |-> FALSE,
                          r |-> LedInfix(toks, pos, to_return, op, inf[2])]
               [] OTHER -> [brk |-> TRUE]

\* led_loop leaving after its first operator instead of going round again.
led_loop_once(toks, pos, to_return, prev_binding) ==
    LET step == LedStep(toks, pos, to_return, prev_binding)
    IN  IF step.brk THEN Ok(to_return, pos) ELSE step.r

\* The led loop of parse_expression.
led_loop(toks, pos, to_return, prev_binding) ==
    LET step == LedStep(toks, pos, to_return, prev_binding)
    IN  IF step.brk THEN Ok(to_return, pos)
        ELSE IF ~step.r.ok THEN step.r
        ELSE IF ~Advanced(pos, step.r.pos) THEN Abort("diverge", pos)
        ELSE LedLoop(toks, step.r.pos, step.r.ast, prev_binding)

parse_expression(toks, pos, prev_binding) ==
    CASE Peek(toks, pos) = "NONE" -> Ok(Nil, pos)
      [] Peek(toks, pos) = "ERR" -> Err("lex", pos + 1)
      [] Peek(toks, pos) = "push" -> NudPush(toks, pos + 1)
      [] OTHER ->
           LET l == Nud(toks, pos + 1, toks[pos])
           IN  IF ~l.ok THEN l ELSE LedLoop(toks, l.pos, l.ast, prev_binding)

\* ------------------------------------------------------------ statements

\* One entry of the Vec<Result<AST>> that parse_statement returns.
Entry(r) ==
    IF r.ok THEN [ok |-> TRUE, ast |-> r.ast] ELSE [ok |-> FALSE, err |-> r.err]

parse_let(toks, pos) ==
    LET p1 == IF is_next_token(toks, pos, "let") THEN pos + 1 ELSE pos
    IN  CASE Peek(toks, p1) = "NONE" -> Err("eof", p1)
          [] Peek(toks, p1) = "ERR" -> Err("lex", p1 + 1)
          [] Peek(toks, p1) \notin IdentToks \cup {"NONE", "ERR"} ->
               Err("syntax", p1 + 1)
          [] OTHER ->
               LET ident == toks[p1]
                   p2 == p1 + 1
                   value == CASE Peek(toks, p2) = "=" -> ParseExpression(toks, p2, 0)
                              [] Peek(toks, p2) = "ERR" -> Panic("lex", p2)
                              [] OTHER -> Ok(Nil, p2)
               IN  IF ~value.ok THEN value
                   ELSE LET sc == expect_peek(toks, value.pos, ";")
                        IN  IF ~sc.ok THEN sc
                            ELSE Ok(LetNode(ident, value.ast), sc.pos)

\* lexer.next() takes whatever is there (the `return` keyword when called
\* from parse_statement).
parse_return(toks, pos) ==
    LET p1 == IF Peek(toks, pos) = "NONE" THEN pos ELSE pos + 1
        value == ParseExpression(toks, p1, 0)
    IN  IF ~value.ok THEN value
        ELSE LET sc == expect_peek(toks, value.pos, ";")
             IN  IF ~sc.ok THEN sc
                 ELSE Ok(ReturnNode(value.ast), sc.pos)

parse_print(toks, pos) ==
    LET p1 == IF Peek(toks, pos) = "NONE" THEN pos ELSE pos + 1
    IN  IF IsToken(toks, p1)
        THEN LET to_return == ParseExpression(toks, p1, 0)
             IN  IF ~to_return.ok THEN to_return
                 ELSE LET sc == expect_peek(toks, to_return.pos, ";")
                      IN  IF ~sc.ok THEN sc
                          ELSE Ok(PrintNode(to_return.ast), sc.pos)
        ELSE Err("syntax", p1)

parse_expression_statements(toks, pos) ==
    LET expr == ParseExpression(toks, pos, 0)
    IN  IF ~expr.ok THEN expr
        ELSE IF is_next_token(toks, expr.pos, ";")
        THEN Ok(expr.ast, expr.pos + 1)
        ELSE expr

\* The match of parse_statement on the leading token: the arm it takes.
StatementArm(tok) ==
    CASE tok = "fn" -> "Fn"
      [] tok = "return" -> "Return"
      [] tok = "if" -> "If"
      [] tok = "print" -> "Print"
      [] tok = "let" -> "Let"
      [] tok = "EOF" -> "EOF"
      [] tok \in ExprStartToks -> "Expression"
      [] OTHER -> "Other"

\* The sub-parser the arm calls.
Dispatch(toks, pos) ==
    LET arm == StatementArm(toks[pos])
    IN  CASE arm = "Fn" -> ParseFun(toks, pos)
          [] arm = "Return" -> parse_return(toks, pos)
          [] arm = "If" -> ParseIf(toks, pos)
          [] arm = "Print" -> parse_print(toks, pos)
          [] arm = "Let" -> parse_let(toks, pos)
          [] OTHER -> parse_expression_statements(toks, pos)

\* The loop of parse_statement from pos, with the entries pushed so far.
parse_statement_loop(toks, pos, statements) ==
    CASE Peek(toks, pos) = "NONE" -> Ok(statements, pos)
      [] Peek(toks, pos) = "ERR" ->
           ParseStatementLoop(toks, pos + 1,
                              Append(statements, Entry(Err("lex", pos))))
      [] IsToken(toks, pos) /\ StatementArm(toks[pos]) \in {"EOF", "Other"} ->
           Ok(statements, pos)
      [] OTHER ->
           LET r == ParseStatementStep(toks, pos)
           IN  IF ~r.ok /\ r.abort # "none" THEN r
               ELSE IF ~Advanced(pos, r.pos) THEN Abort("diverge", pos)
               ELSE ParseStatementLoop(toks, r.pos, Append(statements, Entry(r)))

\* parse_statement as parse_block calls it.
parse_statement(toks, pos) == ParseStatementLoop(toks, pos, <<>>)

\* parse_block: the statements of the block, or the first error among them.
parse_block(toks, pos) ==
    LET r == parse_statement(toks, pos)
    IN  IF ~r.ok THEN r
        ELSE LET bad == {i \in 1..Len(r.ast) : ~r.ast[i].ok}
             IN  IF bad = {}
                 THEN Ok([i \in 1..Len(r.ast) |-> r.ast[i].ast], r.pos)
                 ELSE LET first == CHOOSE i \in bad : \A j \in bad : i <= j
                      IN  Err(r.ast[first].err, r.pos)

\* `{` block `}`
Braced(toks, pos) ==
    LET lb == expect_peek(toks, pos, "{")
    IN  IF ~lb.ok THEN lb
        ELSE LET body == parse_block(toks, lb.pos)
        IN  IF ~body.ok THEN body
        ELSE LET rb == expect_peek(toks, body.pos, "}")
        IN  IF ~rb.ok THEN rb
        ELSE Ok(body.ast, rb.pos)

\* The optional else branch of parse_if: None is <<>>, Some(no) is <<no>>.
ElseBranch(toks, pos) ==
    IF Peek(toks, pos) = "else"
    THEN LET no == Braced(toks, pos + 1)
         IN  IF ~no.ok THEN no ELSE Ok(<<no.ast>>, no.pos)
    ELSE Ok(<<>>, pos)

parse_if(toks, pos) ==
    LET p1 == IF is_next_token(toks, pos, "if") THEN pos + 1 ELSE pos
        condition == ParseExpression(toks, p1, 0)
    IN  IF ~condition.ok THEN condition
        ELSE LET yes == Braced(toks, condition.pos)
        IN  IF ~yes.ok THEN yes
        ELSE LET no == ElseBranch(toks, yes.pos)
        IN  IF ~no.ok THEN no
        ELSE Ok(IfNode(condition.ast, yes.ast, no.ast), no.pos)

RECURSIVE ParseParamsLoop(_, _, _)
\* The comma loop of parse_params.
ParseParamsLoop(toks, pos, params) ==
    IF is_next_token(toks, pos, ",")
    THEN CASE Peek(toks, pos + 1) = "NONE" -> Err("eof", pos + 1)
           [] Peek(toks, pos + 1) = "ERR" -> Err("lex", pos + 2)
           [] Peek(toks, pos + 1) \in IdentToks ->
                ParseParamsLoop(toks, pos + 2, Append(params, toks[pos + 1]))
           [] OTHER -> Err("syntax", pos + 2)
    ELSE Ok(params, pos)

parse_params(toks, pos) ==
    IF ~is_next_token(toks, pos, ")")
    THEN CASE Peek(toks, pos) = "NONE" -> Err("eof", pos)
           [] Peek(toks, pos) = "ERR" -> Err("lex", pos + 1)
           [] Peek(toks, pos) \in IdentToks ->
                ParseParamsLoop(toks, pos + 1, <<toks[pos]>>)
           [] OTHER -> Err("syntax", pos + 1)
    ELSE ParseParamsLoop(toks, pos, <<>>)

\* parse_fun leaving the `fn` keyword in the stream.
parse_fun_keeps_keyword(toks, pos) ==
    LET lp == expect_peek(toks, pos, "(")
    IN  IF ~lp.ok THEN lp
        ELSE LET params == parse_params(toks, lp.pos)
        IN  IF ~params.ok THEN params
        ELSE LET rp == expect_peek(toks, params.pos, ")")
        IN  IF ~rp.ok THEN rp
        ELSE LET body == Braced(toks, rp.pos)
        IN  IF ~body.ok THEN body
        ELSE Ok(FnNode(<<>>, params.ast, body.ast), body.pos)

parse_fun(toks, pos) ==
    LET p1 == IF is_next_token(toks, pos, "fn") THEN pos + 1 ELSE pos
        named == Peek(toks, p1) \in IdentToks
        name == IF named THEN <<toks[p1]>> ELSE <<>>
        p2 == IF named THEN p1 + 1 ELSE p1
        lp == expect_peek(toks, p2, "(")
    IN  IF ~lp.ok THEN lp
        ELSE LET params == parse_params(toks, lp.pos)
        IN  IF ~params.ok THEN params
        ELSE LET rp == expect_peek(toks, params.pos, ")")
        IN  IF ~rp.ok THEN rp
        ELSE LET body == Braced(toks, rp.pos)
        IN  IF ~body.ok THEN body
        ELSE Ok(FnNode(name, params.ast, body.ast), body.pos)

\* The body of the routine named.
Run(routine, toks, pos, arg) ==
    CASE routine = "parse_expression" -> parse_expression(toks, pos, arg)
      [] routine = "led_loop" -> led_loop(toks, pos, arg[1], arg[2])
      [] routine = "parse_args_loop" -> parse_args_loop(toks, pos, arg)
      [] routine = "parse_array_loop" -> parse_array_loop(toks, pos, arg)
      [] routine = "parse_statement_loop" -> parse_statement_loop(toks, pos, arg)
      [] routine = "parse_fun" -> parse_fun(toks, pos)
      [] routine = "parse_if" -> parse_if(toks, pos)
      [] routine = "dispatch" -> Dispatch(toks, pos)

\* ------------------------------------------------------------ inputs

MaxStmts == 2
MaxOps == 3
MaxSuffix == 3
MaxList == 2
MaxRaw == 3

RECURSIVE Concat(_)
\* The concatenation of a sequence of token sequences.
Concat(segs) ==
    IF segs = <<>> THEN <<>> ELSE Head(segs) \o Concat(Tail(segs))

\* Statements of the language (spec section 4.2), one token sequence each.
WellFormedStmts ==
    { <<"let", "x", "=", "1", ";">>,
      <<"let", "y", ";">>,
      <<"x", "=", "1", ";">>,
      <<"-", "y", ";">>,
      <<"print", "x", ";">>,
      <<"return", "1", ";">>,
      <<"a", "+", "1", ";">>,
      <<"f", "(", "a", ",", "b", ")", ";">>,
      <<"(", "1", ")", ";">>,
      <<"[", "a", ",", "b", "]", ";">>,
      <<"len", "(", "\"s\"", ")", ";">>,
      <<"push", "(", "a", ",", "1", ")", ";">>,
      <<"if", "a", "{", "print", "x", ";", "}", "else", "{", "print", "1", ";", "}">>,
      <<"fn", "f", "(", "a", ",", "b", ")", "{", "return", "a", "+", "b", ";", "}">> }

\* Statements that are not: a token missing, misplaced or in error.
MalformedStmts ==
    { <<"let", ";">>,
      <<"let", "x", "1", ";">>,
      <<"let", "x", "ERR", ";">>,
      <<"(", "1", ";">>,
      <<"1", "+", ";">>,
      <<"print", ";">>,
      <<"return", "1", ")", ";">>,
      <<"if", "a", "{", "let", ";", "}">>,
      <<"fn", "f", "(", "a", "{", "}">> }

Catalog == WellFormedStmts \cup MalformedStmts

RECURSIVE SeqsUpTo(_, _)
\* The sequences over S of length at most n.
SeqsUpTo(S, n) ==
    IF n = 0 THEN {<<>>}
    ELSE LET shorter == SeqsUpTo(S, n - 1)
         IN  shorter \cup {Append(q, e) : q \in shorter, e \in S}

\* Programs: up to MaxStmts statements of the catalog.
Programs ==
    {[kind |-> "program", segs |-> q] : q \in SeqsUpTo(Catalog, MaxStmts) \ {<<>>}}

\* Infix expressions: operands joined by infix operators, one operand
\* possibly a prefix, postfix or grouped form.
InfixToks == {"or", "and", "<", "==", "+", "-", "*"}

Atom(i) == <<"a", "b", "c", "x", "y">>[i]

OperandForms == {"plain", "neg", "not", "call", "index", "group"}

Operand(form, t) ==
    CASE form = "neg" -> <<"-", t>>
      [] form = "not" -> <<"!", t>>
      [] form = "call" -> <<t, "(", "1", ")">>
      [] form = "index" -> <<t, "[", "1", "]">>
      [] form = "group" -> <<"(", t, "+", "1", ")">>
      [] OTHER -> <<t>>

RECURSIVE InfixTokens(_, _, _, _)
\* Operand i onwards of the expression with operators ops, operand d in form.
InfixTokens(ops, d, form, i) ==
    LET operand == Operand(IF i = d THEN form ELSE "plain", Atom(i))
    IN  IF i > Len(ops) THEN operand
        ELSE operand \o <<ops[i]>> \o InfixTokens(ops, d, form, i + 1)

InfixExprs ==
    {[kind |-> "infix",
      segs |-> <<InfixTokens(ops, d, form, 1) \o <<";">> >>] :
        <<ops, d, form>> \in
            {<<o, e, g>> \in (SeqsUpTo(InfixToks, MaxOps) \ {<<>>})
                               \X (1..(MaxOps + 1)) \X OperandForms :
                e <= Len(o) + 1}}

\* Postfix chains: an identifier followed by up to MaxSuffix call or index
\* suffixes.
SuffixForms ==
    { <<"(", ")">>, <<"(", "a", ")">>, <<"(", "a", ",", "b", ")">>,
      <<"[", "1", "]">> }

PostfixChains ==
    {[kind |-> "postfix", suffixes |-> q,
      segs |-> << <<"f">> \o Concat(q) \o <<";">> >>] :
        q \in SeqsUpTo(SuffixForms, MaxSuffix) \ {<<>>}}

\* Built-in call forms, each in every place an operand can stand.
BuiltinForms ==
    { <<"len", "(", "a", ")">>, <<"first", "(", "a", ")">>,
      <<"last", "(", "a", ")">>, <<"rest", "(", "a", ")">>,
      <<"push", "(", "a", ",", "1", ")">> }

BuiltinContexts == {"infix", "index", "let", "return", "print"}

InContext(ctx, e) ==
    CASE ctx = "infix" -> e \o <<"+", "1", ";">>
      [] ctx = "index" -> e \o <<"[", "1", "]", ";">>
      [] ctx = "let" -> <<"let", "x", "=">> \o e \o <<";">>
      [] ctx = "return" -> <<"return">> \o e \o <<";">>
      [] OTHER -> <<"print">> \o e \o <<";">>

BuiltinUses ==
    {[kind |-> "builtin", form |-> e, ctx |-> c, segs |-> <<InContext(c, e)>>] :
        e \in BuiltinForms, c \in BuiltinContexts}

\* let statements: with or without the identifier, the value, the `;`.
LetValues ==
    { <<>>, <<"1">>, <<"a", "+", "1">>, <<"-", "a">>, <<"f", "(", "a", ")">>,
      <<"[", "a", ",", "b", "]">>, <<"len", "(", "a", ")">>,
      <<"push", "(", "a", ",", "1", ")">> }

LetTokens(ident, value, term) ==
    <<"let">> \o ident \o (IF value = <<>> THEN <<>> ELSE <<"=">> \o value)
        \o (IF term THEN <<";">> ELSE <<>>)

LetForms ==
    {[kind |-> "let", ident |-> i, value |-> v, term |-> t,
      segs |-> <<LetTokens(i, v, t)>>] :
        i \in {<<>>, <<"x">>}, v \in LetValues, t \in BOOLEAN}

\* Comma-separated lists of n elements, with or without a trailing comma.
RECURSIVE ListItems(_, _)
ListItems(n, trailing) ==
    IF n = 0 THEN <<>>
    ELSE IF n = 1 THEN <<Atom(1)>> \o (IF trailing THEN <<",">> ELSE <<>>)
    ELSE ListItems(n - 1, FALSE) \o <<",", Atom(n)>>
             \o (IF trailing THEN <<",">> ELSE <<>>)

ListTokens(form, n, trailing) ==
    CASE form = "args" -> <<"f", "(">> \o ListItems(n, trailing) \o <<")", ";">>
      [] form = "array" -> <<"[">> \o ListItems(n, trailing) \o <<"]", ";">>
      [] OTHER -> <<"fn", "f", "(">> \o ListItems(n, trailing) \o <<")", "{", "}">>

Lists ==
    {[kind |-> "list", form |-> f, n |-> n, trailing |-> t,
      segs |-> <<ListTokens(f, n, t)>>] :
        f \in {"args", "array", "params"}, n \in 1..MaxList, t \in BOOLEAN}

\* Reassignments `target = 1 ;`, the target an operand of any form.
Reassigns ==
    {[kind |-> "reassign", target |-> f,
      segs |-> <<Operand(f, "x") \o <<"=", "1", ";">> >>] : f \in OperandForms}

\* Blocks: the body of an if, of an else or of a function, the body whole
\* statements or a statement cut short right before the closing `}`.
BlockBodies ==
    { <<>>, <<"print", "x", ";">>, <<"let", "y", ";">>, <<"a">>,
      <<"a", ";", "b", ";">>, <<"return", "a", "+", "b", ";">>,
      <<"-">>, <<"let">>, <<"return">>, <<"print">>, <<"a", "+">>, <<"(">>,
      <<"f", "(">>, <<"[">> }

BlockForms == {"if", "else", "fn"}

BlockTokens(form, body) ==
    CASE form = "if" -> <<"if", "a", "{">> \o body \o <<"}">>
      [] form = "else" ->
           <<"if", "a", "{", "}", "else", "{">> \o body \o <<"}">>
      [] OTHER -> <<"fn", "f", "(", ")", "{">> \o body \o <<"}">>

Blocks ==
    {[kind |-> "block", form |-> f, body |-> b, segs |-> <<BlockTokens(f, b)>>] :
        f \in BlockForms, b \in BlockBodies}

\* Every token of the language, one of each payload kind.
AllToks ==
    {"let", "fn", "return", "if", "else", "print", "true", "false", "nil",
     "len", "first", "last", "rest", "push", "and", "or",
     "(", ")", "[", "]", "{", "}", ",", ";",
     "+", "-", "*", "/", "!", "=", "==", "!=", "<", "<=", ">", ">=",
     "a", "1", "\"s\"", "EOF"}

\* Every token after every token: each one where an operand must stand and
\* each one where an operator may follow an operand.
Pairs ==
    {[kind |-> "pair", segs |-> << <<t, u, "a", ")", ";">> >>] :
        t \in AllToks, u \in AllToks}

\* Any short sequence of items, the end marker included or not.
RawToks ==
    {"let", "a", "=", ";", "(", ")", "[", "]", ",", "-", "ERR", "EOF"}

RawStreams ==
    {[kind |-> "raw", segs |-> <<q>>] : q \in SeqsUpTo(RawToks, MaxRaw)}

\* The token source's items: the statements in order, then the end marker.
Stream(in) ==
    IF in.kind = "raw" THEN Concat(in.segs) ELSE Concat(in.segs) \o <<"EOF">>

\* ------------------------------------------------------------ Parser::parse

VARIABLES
    input,       \* what the token source was made from
    tokens,      \* the items of the token source (self.lexer)
    pos,         \* index of the item the next peek() returns
    statements,  \* the Vec<Result<AST>> of the top-level parse_statement
    pc,          \* "loop", "done" (returned), "panicked", "diverged"
    panic_message  \* the message of the panic! that ended the parse, or ""

vars == <<input, tokens, pos, statements, pc, panic_message>>

\* Parser::new, then the entry of parse -> parse_statement.
Init ==
    /\ \/ input \in Programs
       \/ input \in InfixExprs
       \/ input \in PostfixChains
       \/ input \in BuiltinUses
       \/ input \in LetForms
       \/ input \in Lists
       \/ input \in Reassigns
       \/ input \in Blocks
       \/ input \in Pairs
       \/ input \in RawStreams
    /\ tokens = Stream(input)
    /\ pos = 1
    /\ statements = <<>>
    /\ pc = "loop"
    /\ panic_message = ""

\* The Err(err) arm of the statement loop: push the error, drop the item.
LexError ==
    /\ pc = "loop"
    /\ Peek(tokens, pos) = "ERR"
    /\ statements' = Append(statements, Entry(Err("lex", pos)))
    /\ pos' = pos + 1
    /\ UNCHANGED <<input, tokens, pc, panic_message>>

\* One iteration of the statement loop through the arm of that name.
RunArm(arm) ==
    /\ pc = "loop"
    /\ IsToken(tokens, pos)
    /\ StatementArm(tokens[pos]) = arm
    /\ LET r == ParseStatementStep(tokens, pos)
       IN  IF ~r.ok /\ r.abort # "none"
           THEN /\ pc' = IF r.abort = "panic" THEN "panicked" ELSE "diverged"
                /\ panic_message' = IF r.abort = "panic" THEN r.err ELSE ""
                /\ pos' = r.pos
                /\ UNCHANGED statements
           ELSE /\ statements' = Append(statements, Entry(r))
                /\ pos' = r.pos
                /\ pc' = IF Advanced(pos, r.pos) THEN "loop" ELSE "diverged"
                /\ UNCHANGED panic_message
    /\ UNCHANGED <<input, tokens>>

StmtFn == RunArm("Fn")

StmtReturn == RunArm("Return")

StmtIf == RunArm("If")

StmtPrint == RunArm("Print")

StmtLet == RunArm("Let")

StmtExpression == RunArm("Expression")

\* Token::EOF => break
BreakEOF ==
    /\ pc = "loop"
    /\ Peek(tokens, pos) = "EOF"
    /\ pc' = "done"
    /\ UNCHANGED <<input, tokens, pos, statements, panic_message>>

\* _ => break
BreakOther ==
    /\ pc = "loop"
    /\ IsToken(tokens, pos)
    /\ StatementArm(tokens[pos]) = "Other"
    /\ pc' = "done"
    /\ UNCHANGED <<input, tokens, pos, statements, panic_message>>

\* peek() is None: the while-let ends.
EndOfStream ==
    /\ pc = "loop"
    /\ Peek(tokens, pos) = "NONE"
    /\ pc' = "done"
    /\ UNCHANGED <<input, tokens, pos, statements, panic_message>>

Next ==
    \/ LexError
    \/ StmtFn
    \/ StmtReturn
    \/ StmtIf
    \/ StmtPrint
    \/ StmtLet
    \/ StmtExpression
    \/ BreakEOF
    \/ BreakOther
    \/ EndOfStream

Spec == Init /\ [][Next]_vars

\* ------------------------------------------------------------ rendering

\* impl fmt::Display for Op: the operator's display token.
OpDisplay(op) ==
    CASE op = "Minus" -> "-"
      [] op = "ReAssign" -> "="
      [] op = "Plus" -> "+"
      [] op = "Star" -> "*"
      [] op = "Assing" -> "="
      [] op = "BangEqual" -> "!="
      [] op = "AssignEqual" -> "=="
      [] op = "LessEqual" -> "<="
      [] op = "GreaterEqual" -> ">="
      [] op = "Less" -> "<"
      [] op = "Greater" -> ">"
      [] op = "Slash" -> "/"
      [] op = "Bang" -> "!"
      [] op = "And" -> "and"
      [] op = "Or" -> "or"
      [] op = "Fn" -> "call"
      [] op = "Grouped" -> "group"
      [] op = "Len" -> "len"
      [] op = "Index" -> "index"
      [] op = "First" -> "First"
      [] op = "Last" -> "Last"
      [] op = "Push" -> "Push"
      [] op = "Rest" -> "Rest"

\* The rendered text is a sequence of pieces, in the order the write! calls
\* emit them: a piece is a blank " ", a punctuation or operator symbol, or a
\* word.  Two pieces with no blank between them are adjacent in the text.
Blank == " "

\* Joined(parts) is every part with a blank written before it (" {s}").
Joined(parts) == Concat([i \in DOMAIN parts |-> <<Blank>> \o parts[i]])

RECURSIVE Render(_)
\* impl fmt::Display for AST and for Type.
Render(ast) ==
    CASE ast.k = "Type" /\ ast.t = "Nil" -> <<"nil">>
      [] ast.k = "Type" /\ ast.t = "Number" -> <<ast.v \o ".0">>
      [] ast.k = "Type" /\ ast.t = "Arr" ->
           <<"[">> \o Concat([i \in DOMAIN ast.elems |->
               (IF i > 1 THEN <<",", Blank>> ELSE <<>>) \o Render(ast.elems[i])])
               \o <<"]">>
      [] ast.k = "Type" /\ ast.t \in {"String", "Bool", "Ident"} -> <<ast.v>>
      [] ast.k = "Print" -> Render(ast.value)
      [] ast.k = "Expr" ->
           <<"(", OpDisplay(ast.op)>>
               \o Joined([i \in DOMAIN ast.xs |-> Render(ast.xs[i])]) \o <<")">>
      [] ast.k = "Fn" ->
           (IF ast.name # <<>> THEN <<ast.name[1]>> ELSE <<"(", "fun">>)
               \o Joined([i \in DOMAIN ast.params |-> <<ast.params[i]>>])
               \o Joined([i \in DOMAIN ast.body |-> Render(ast.body[i])])
               \o <<"}">>
      [] ast.k = "Call" ->
           <<"(">> \o Render(ast.calle)
               \o Joined([i \in DOMAIN ast.args |-> Render(ast.args[i])])
               \o <<")">>
      [] ast.k = "If" ->
           <<"if", Blank>> \o Render(ast.condition) \o <<Blank, "{">>
               \o Joined([i \in DOMAIN ast.yes |-> Render(ast.yes[i])])
               \o <<Blank, "}", Blank>>
               \o (IF ast.no # <<>>
                   THEN <<"else", Blank, "{">>
                            \o Joined([i \in DOMAIN ast.no[1] |->
                                           Render(ast.no[1][i])])
                            \o <<Blank, "}">>
                   ELSE <<>>)
      [] ast.k = "Return" -> <<"return", Blank>> \o Render(ast.value)
      [] OTHER -> <<ast.ident>> \o Render(ast.value)

RECURSIVE Written(_)
\* The text itself: the pieces one after the other (format!("{}", ast)).
Written(pieces) ==
    IF pieces = <<>> THEN "" ELSE Head(pieces) \o Written(Tail(pieces))

\* ------------------------------------------------------------ token source

\* Pieces the token source reads as a token each, whatever is next to them.
SymbolPieces ==
    {"(", ")", "[", "]", "{", "}", ",", ";", "+", "-", "*", "/", "!", "=",
     "==", "!=", "<", "<=", ">", ">="}

\* The token of a word: a number's text is its Number token, any other word
\* is the keyword or identifier of that spelling.
WordToken(w) ==
    IF \E n \in NumberToks : w = n \o ".0"
    THEN CHOOSE n \in NumberToks : w = n \o ".0"
    ELSE w

RECURSIVE LexFrom(_, _, _)
\* The tokens of text from piece i on, word being the letters read since the
\* last blank or symbol ("" when none).
LexFrom(text, i, word) ==
    LET flush == IF word = "" THEN <<>> ELSE <<WordToken(word)>>
    IN  IF i > Len(text) THEN flush
        ELSE IF text[i] = Blank THEN flush \o LexFrom(text, i + 1, "")
        ELSE IF text[i] \in SymbolPieces
        THEN flush \o <<text[i]>> \o LexFrom(text, i + 1, "")
        ELSE LexFrom(text, i + 1, word \o text[i])

\* Lexer::new(text): the tokens of the text, then the end marker.
Lex(text) == LexFrom(text, 1, "") \o <<"EOF">>

\* Parser::new(text).parse()
Reparse(text) == parse_statement(Lex(text), 1)

\* ------------------------------------------------------------ trees

Ident(name) == TypeNode("Ident", name)

Number(text) == TypeNode("Number", text)

Range(q) == {q[i] : i \in DOMAIN q}

RECURSIVE SubNodes(_)
\* The nodes of a tree, the root included.
SubNodes(ast) ==
    {ast} \cup
    CASE ast.k = "Type" ->
           IF ast.t = "Arr" THEN UNION {SubNodes(e) : e \in Range(ast.elems)}
           ELSE {}
      [] ast.k = "Expr" -> UNION {SubNodes(e) : e \in Range(ast.xs)}
      [] ast.k = "Call" ->
           SubNodes(ast.calle) \cup UNION {SubNodes(e) : e \in Range(ast.args)}
      [] ast.k = "Fn" -> UNION {SubNodes(e) : e \in Range(ast.body)}
      [] ast.k = "If" ->
           SubNodes(ast.condition)
               \cup UNION {SubNodes(e) : e \in Range(ast.yes)}
               \cup UNION {SubNodes(e) : e \in UNION {Range(b) : b \in Range(ast.no)}}
      [] OTHER -> SubNodes(ast.value)

\* The entries of the result that are Ok.
OkEntries == {e \in Range(statements) : e.ok}

IsInfixNode(n) ==
    n.k = "Expr" /\ Len(n.xs) = 2 /\ n.op \notin {"Index", "ReAssign", "Push"}

IsPrefixNode(n) == n.k = "Expr" /\ Len(n.xs) = 1 /\ n.op \in {"Bang", "Minus"}

\* The binding-power table as the specification states it: the level of the
\* operator at the root of a tree (an operand or a group binds tightest).
TableLevel(n) ==
    CASE IsInfixNode(n) /\ n.op \in {"And", "Or"} -> 3
      [] IsInfixNode(n) /\ n.op \in {"Less", "LessEqual", "Greater",
                                     "GreaterEqual", "AssignEqual", "BangEqual"} -> 5
      [] IsInfixNode(n) /\ n.op \in {"Plus", "Minus"} -> 7
      [] IsInfixNode(n) /\ n.op \in {"Star", "Slash"} -> 9
      [] IsPrefixNode(n) -> 11
      [] n.k = "Expr" /\ n.op \in {"Fn", "Index"} -> 13
      [] OTHER -> 15

\* A node sits where the table puts it: the left operand of an infix operator
\* binds at least as tightly as the operator and its right operand strictly
\* tighter (left association), the operand of a prefix operator at least as
\* tightly as a prefix, a callee or indexed operand at least as a postfix.
Dictated(n) ==
    CASE IsInfixNode(n) ->
           /\ TableLevel(n.xs[1]) >= TableLevel(n)
           /\ TableLevel(n.xs[2]) > TableLevel(n)
      [] IsPrefixNode(n) -> TableLevel(n.xs[1]) >= 11
      [] n.k = "Expr" /\ n.op = "Index" -> TableLevel(n.xs[1]) >= 13
      [] n.k = "Call" -> TableLevel(n.calle) >= 13
      [] OTHER -> TRUE

RECURSIVE Flat(_)
\* The tokens of an expression tree, read off in order.
Flat(n) ==
    CASE n.k = "Type" -> <<n.v>>
      [] n.k = "Call" ->
           Flat(n.calle) \o <<"(">> \o Concat([i \in DOMAIN n.args |->
               (IF i > 1 THEN <<",">> ELSE <<>>) \o Flat(n.args[i])]) \o <<")">>
      [] n.k = "Expr" /\ n.op = "Grouped" -> <<"(">> \o Flat(n.xs[1]) \o <<")">>
      [] n.k = "Expr" /\ n.op = "Fn" -> Flat(n.xs[1])
      [] n.k = "Expr" /\ n.op = "Index" ->
           Flat(n.xs[1]) \o <<"[">> \o Flat(n.xs[2]) \o <<"]">>
      [] n.k = "Expr" /\ n.op # "Grouped" /\ Len(n.xs) = 1 ->
           <<OpDisplay(n.op)>> \o Flat(n.xs[1])
      [] OTHER -> Flat(n.xs[1]) \o <<OpDisplay(n.op)>> \o Flat(n.xs[2])

\* ------------------------------------------------------------ claims

\* C1: parse_expression(0) builds the tree the binding-power table dictates.
\* An infix expression is parsed to one tree; read in order the tree gives
\* back the tokens; and in it every operator of a higher level is below an
\* adjacent operator of a lower level, two adjacent infix operators of one
\* level associating to the left, never to the right.
C1_TreeDictatedByTable ==
    (pc = "done" /\ input.kind = "infix") =>
        /\ Len(statements) = 1
        /\ statements[1].ok
        /\ Flat(statements[1].ast) \o <<";">> = input.segs[1]
        /\ \A n \in SubNodes(statements[1].ast) : Dictated(n)

\* a + b - c has been parsed, as (a + b) - c.
C1_Witness ==
    /\ pc = "done"
    /\ input.kind = "infix"
    /\ input.segs[1] = <<"a", "+", "b", "-", "c", ";">>
    /\ statements =
           <<[ok |-> TRUE,
              ast |-> Expr("Minus", <<Expr("Plus", <<Ident("a"), Ident("b")>>),
                                      Ident("c")>>)]>>

\* C2: Parser::parse returns one entry per top-level statement, in order:
\* Ok for a well-formed statement, a single Err for a malformed one.
C2_OneEntryPerStatement ==
    (pc = "done" /\ input.kind = "program") =>
        /\ Len(statements) = Len(input.segs)
        /\ \A i \in DOMAIN input.segs :
               statements[i].ok <=> input.segs[i] \in WellFormedStmts

\* The entry a statement gives when it is the whole input.
AloneEntry(seg) == parse_statement(seg \o <<"EOF">>, 1).ast[1]

\* C3: after a malformed statement parsing resumes at the next statement:
\* every well-formed statement after it appears as an Ok entry.
C3_ResumesAfterError ==
    (pc = "done" /\ input.kind = "program") =>
        \A i, j \in DOMAIN input.segs :
            (i < j /\ input.segs[i] \in MalformedStmts
                   /\ input.segs[j] \in WellFormedStmts) =>
                \E k \in DOMAIN statements :
                    statements[k].ok /\ statements[k] = AloneEntry(input.segs[j])

\* C4: no execution of the parser reaches a panic.
C4_NoPanic == pc # "panicked"

ExpectedValue(v) ==
    IF v[1] = "push" THEN Expr("Push", <<Ident(v[3]), Number(v[5])>>)
    ELSE parse_expression(v \o <<"EOF">>, 1, 0).ast

\* C6: let <identifier> [= <expression>] ; gives Let{ident, value}, the value
\* being Expr(Assing, [expression]) or Nil without `=`; without the identifier
\* or the `;` the result is an Err and no Let node.
C6_LetForm ==
    (pc \in {"done", "panicked"} /\ input.kind = "let") =>
        IF input.ident # <<>> /\ input.term
        THEN statements =
                 <<[ok |-> TRUE,
                    ast |-> LetNode(input.ident[1],
                                    IF input.value = <<>> THEN Nil
                                    ELSE Expr("Assing",
                                              <<ExpectedValue(input.value)>>))]>>
        ELSE /\ statements # <<>>
             /\ ~statements[1].ok
             /\ \A e \in OkEntries : e.ast.k # "Let"

RECURSIVE WrapAll(_, _)
\* An operand with its suffixes applied in order: a call suffix wraps it in
\* Expr(Fn, [Call{calle, args}]), an index suffix in Expr(Index, [e, i]).
WrapAll(e, suffixes) ==
    IF suffixes = <<>> THEN e
    ELSE LET s == Head(suffixes)
             wrapped ==
                 IF s[1] = "("
                 THEN Expr("Fn", <<CallNode(e,
                         [i \in 1..((Len(s) - 1) \div 2) |-> Ident(s[2 * i])])>>)
                 ELSE Expr("Index", <<e, Number(s[2])>>)
         IN  WrapAll(wrapped, Tail(suffixes))

\* C7: postfix operators chain onto the accumulated left operand: k suffixes
\* give k nested wrappers in source order, arguments in source order.
C7_PostfixChains ==
    (pc = "done" /\ input.kind = "postfix") =>
        statements = <<[ok |-> TRUE, ast |-> WrapAll(Ident("f"), input.suffixes)]>>

\* f(a)(a, b) has been parsed: a call whose callee is the call f(a).
C7_Witness ==
    /\ pc = "done"
    /\ input.kind = "postfix"
    /\ input.suffixes = << <<"(", "a", ")">>, <<"(", "a", ",", "b", ")">> >>
    /\ statements # <<>>
    /\ statements[1].ok
    /\ statements[1].ast.xs[1].calle.op = "Fn"
    /\ statements[1].ast.xs[1].args = <<Ident("a"), Ident("b")>>

\* C8: a comma right before the closing `)` or `]` makes the call, the array
\* literal or the parameter list fail with an Err.
C8_NoTrailingComma ==
    (pc = "done" /\ input.kind = "list" /\ input.trailing) =>
        /\ statements # <<>>
        /\ ~statements[1].ok

\* The node of a built-in call form.
BuiltinAst(form) ==
    CASE form[1] = "len" -> Expr("Len", <<Ident(form[3])>>)
      [] form[1] = "first" -> Expr("First", <<Ident(form[3])>>)
      [] form[1] = "last" -> Expr("Last", <<Ident(form[3])>>)
      [] form[1] = "rest" -> Expr("Rest", <<Ident(form[3])>>)
      [] OTHER -> Expr("Push", <<Ident(form[3]), Number(form[5])>>)

\* The statement around operand b in a context of BuiltinContexts.
ExpectedInContext(ctx, b) ==
    CASE ctx = "infix" -> Expr("Plus", <<b, Number("1")>>)
      [] ctx = "index" -> Expr("Index", <<b, Number("1")>>)
      [] ctx = "let" -> LetNode("x", Expr("Assing", <<b>>))
      [] ctx = "return" -> ReturnNode(b)
      [] OTHER -> PrintNode(b)

\* C9: each of len(x), first(x), last(x), rest(x), push(x, y) is a left
\* operand: it can stand before an infix or postfix operator and be the
\* value of let, return and print, whose `;` the statement routine consumes.
C9_BuiltinIsOperand ==
    (pc = "done" /\ input.kind = "builtin") =>
        statements =
            <<[ok |-> TRUE,
               ast |-> ExpectedInContext(input.ctx, BuiltinAst(input.form))]>>

\* C10: in every reassignment node of every parse result the target (the
\* first operand) is an identifier leaf.
C10_ReassignTargetIsIdent ==
    \A e \in OkEntries :
        \A n \in SubNodes(e.ast) :
            (n.k = "Expr" /\ n.op = "ReAssign") =>
                (n.xs[1].k = "Type" /\ n.xs[1].t = "Ident")

\* Parsing the rendering of t gives one tree, and it renders as t does.
RoundTrips(t) ==
    LET again == Reparse(Render(t))
    IN  /\ again.ok
        /\ Len(again.ast) = 1
        /\ again.ast[1].ok
        /\ Written(Render(again.ast[1].ast)) = Written(Render(t))

\* C11: rendering is idempotent under re-parsing: for every tree of a
\* successful parse, parsing its canonical rendering again succeeds and gives
\* a tree with the same rendering.
C11_RenderIdempotent ==
    pc = "done" => \A e \in OkEntries : RoundTrips(e.ast)

\* The positions where a block begins: right after a `{`.
BlockStarts(toks) == {p \in 2..(Len(toks) + 1) : toks[p - 1] = "{"}

RECURSIVE CloseOf(_, _, _)
\* The position of the `}` that closes the block whose inside begins at i
\* (depth braces deep), Len(toks) + 1 when there is none.
CloseOf(toks, i, depth) ==
    IF i > Len(toks) THEN i
    ELSE IF toks[i] = "}" /\ depth = 0 THEN i
    ELSE IF toks[i] = "}" THEN CloseOf(toks, i + 1, depth - 1)
    ELSE IF toks[i] = "{" THEN CloseOf(toks, i + 1, depth + 1)
    ELSE CloseOf(toks, i + 1, depth)

\* The statement loop is at a token that starts neither a statement nor an
\* expression, at the end marker, or past the last item.
AtStop(toks, p) ==
    \/ Peek(toks, p) = "NONE"
    \/ IsToken(toks, p) /\ StatementArm(toks[p]) \in {"EOF", "Other"}

\* parse_statement, run on the inside of the block that begins at p, returns
\* at a token it has not consumed, and that token is not beyond the `}` that
\* closes the block: the `}` is still there for the caller's expect_peek.
LeavesClosingBrace(toks, p) ==
    LET r == parse_statement(toks, p)
    IN  r.ok => (AtStop(toks, r.pos) /\ r.pos <= CloseOf(toks, p, 0))

\* C12: parse_statement stops at the end marker or at a leading token that
\* starts nothing, without consuming it and without appending an entry; and
\* run on the inside of a block it never consumes the `}` that closes the
\* block, which is left for parse_if / parse_fun.
C12_StopLeavesToken ==
    [][/\ (pc = "loop" /\ AtStop(tokens, pos)) =>
              (pc' = "done" /\ pos' = pos /\ statements' = statements)
       /\ (pc = "loop" /\ pc' = "done") => AtStop(tokens, pos)
       /\ \A p \in BlockStarts(tokens) : LeavesClosingBrace(tokens, p)]_vars

\* The entries of the result that forward a lexical error.
LexErrEntries ==
    {k \in DOMAIN statements : ~statements[k].ok /\ statements[k].err = "lex"}

\* The lexical-error items the parser has taken from the token source.
LexErrItems == {i \in 1..(pos - 1) : tokens[i] = "ERR"}

\* C13: every lexical-error item the token source yields is consumed and
\* gives exactly one Err entry in the result of Parser::parse, wherever it
\* stands: as many forwarded errors as error items, none dropped, none twice.
C13_LexErrorsForwardedOnce ==
    pc = "done" => Cardinality(LexErrEntries) = Cardinality(LexErrItems)

\* C14: neither panic of the operator tables is ever executed: the postfix
\* branch of the led loop runs only with Fn, ReAssign or Index, so never
\* panic!("should not error from postfix"), and prefix_binding_power is
\* called only with Bang or Minus, so never panic!("bad operation").
C14_TablePanicsUnreachable ==
    panic_message \notin {"should not error from postfix", "bad operation"}

\* `a len a ) ;` has been parsed: `len` stood where an operator may follow an
\* operand, the led loop left it alone, and it was parsed as the next
\* statement's built-in form, which fails at the missing `(`.
C14_Witness ==
    /\ pc = "done"
    /\ input.kind = "pair"
    /\ input.segs[1] = <<"a", "len", "a", ")", ";">>
    /\ Len(statements) = 3
    /\ statements[1] = [ok |-> TRUE, ast |-> Ident("a")]
    /\ ~statements[2].ok

\* The operators every Expr node of which has one operand.
UnaryOps == {"Grouped", "Assing", "Len", "First", "Last", "Rest", "Fn", "Bang"}

\* The operators every Expr node of which has two operands.
BinaryOps ==
    {"Plus", "Star", "Slash", "Less", "LessEqual", "Greater", "GreaterEqual",
     "AssignEqual", "BangEqual", "And", "Or", "Index", "ReAssign", "Push"}

\* The operand count of an Expr node is the one its operator fixes; Minus is
\* a prefix with one operand or an infix with two.
OperandCountFixed(n) ==
    /\ n.op \in UnaryOps => Len(n.xs) = 1
    /\ n.op = "Fn" => n.xs[1].k = "Call"
    /\ n.op \in BinaryOps => Len(n.xs) = 2
    /\ n.op = "Minus" => Len(n.xs) \in {1, 2}
    /\ n.op \in UnaryOps \cup BinaryOps \cup {"Minus"}

\* C15: every Expr node of every tree the parser returns has the number of
\* operands its operator fixes: one for Grouped, Assing, Len, First, Last,
\* Rest, Fn (a Call node) and a prefix Bang or Minus, two for the infix
\* operators and for Index, ReAssign and Push; never none, never three.
C15_OperandCounts ==
    \A e \in OkEntries :
        \A n \in SubNodes(e.ast) : n.k = "Expr" => OperandCountFixed(n)

\* a - -b has been parsed: an infix Minus with two operands over a prefix
\* Minus with one.
C15_Witness ==
    /\ pc = "done"
    /\ statements =
           <<[ok |-> TRUE,
              ast |-> Expr("Minus", <<Ident("a"),
                                      Expr("Minus", <<Ident("b")>>)>>)]>>

====
